---- MODULE Spec2Model ----
(***************************************************************************)
(* The LS-8 style virtual machine of cpu.py: memory, eight registers, the  *)
(* flags byte, the program counter, the instruction handlers of the branch *)
(* table, the ALU and the fetch-decode-execute loop CPU.run.               *)
(*                                                                         *)
(* One action models one iteration of the `while True` loop of run: the    *)
(* three ram_read calls, the routing test, the handler (or the ALU) and    *)
(* the trailing move_PC.  A Python exception or sys.exit ends the loop;    *)
(* `status` records which one.                                             *)
(***************************************************************************)
EXTENDS Integers, Sequences, FiniteSets, TLC

\* ------------------------------------------------------------------ tables

\* binary_op: opcode -> mnemonic
binary_op ==
  (1 :> "HLT") @@ (130 :> "LDI") @@ (71 :> "PRN") @@ (69 :> "PUSH") @@
  (70 :> "POP") @@ (80 :> "CALL") @@ (17 :> "RET") @@ (84 :> "JMP") @@
  (85 :> "JEQ") @@ (86 :> "JNE")

\* math_op: mnemonic -> opcode
math_op ==
  [ADD |-> 160, SUB |-> 161, MUL |-> 162, CMP |-> 167, SHL |-> 172,
   SHR |-> 173, MOD |-> 164, AND |-> 168, OR |-> 170, XOR |-> 171,
   NOT |-> 105]

\* the stack pointer's register index
SP == 7

\* len(self.ram): [0] * 0xFF * 256
RamSize == 65280

\* len(self.register)
NumRegisters == 8

\* Python's None, the value of MAR, MDR, operand_a and operand_b after
\* construction (no byte of memory equals it)
None == -1

\* the opcode of a mnemonic of binary_op
OpOf(name) == CHOOSE ir \in DOMAIN binary_op : binary_op[ir] = name

\* ------------------------------------------------------- Python arithmetic

\* Python's a % b for b # 0: the result has the sign of b
PyMod(a, b) == IF b > 0 THEN a % b ELSE -((-a) % (-b))

\* Python's a & b, a | b, a ^ b and ~a on unbounded two's complement integers
RECURSIVE BitAnd(_, _)
BitAnd(a, b) ==
  IF a = 0 \/ b = 0 THEN 0
  ELSE IF a = -1 THEN b
  ELSE IF b = -1 THEN a
  ELSE (a % 2) * (b % 2) + 2 * BitAnd(a \div 2, b \div 2)

BitNot(a) == -a - 1

RECURSIVE BitOr(_, _)
BitOr(a, b) ==
  IF a = 0 THEN b
  ELSE IF b = 0 THEN a
  ELSE IF a = -1 \/ b = -1 THEN -1
  ELSE (IF a % 2 = 1 \/ b % 2 = 1 THEN 1 ELSE 0) + 2 * BitOr(a \div 2, b \div 2)

RECURSIVE BitXor(_, _)
BitXor(a, b) ==
  IF a = 0 THEN b
  ELSE IF b = 0 THEN a
  ELSE IF a = -1 THEN BitNot(b)
  ELSE IF b = -1 THEN BitNot(a)
  ELSE (IF a % 2 = b % 2 THEN 0 ELSE 1) + 2 * BitXor(a \div 2, b \div 2)

\* x doubled n times, reduced modulo 255 at every doubling
RECURSIVE DoubledMod255(_, _)
DoubledMod255(x, n) ==
  IF n = 0 THEN x % 255 ELSE (2 * DoubledMod255(x, n - 1)) % 255

\* (a << n) % 255 for n >= 0.  a << n is a * 2^n, and 2^8 = 256 is 1 modulo
\* 255, so only n % 8 doublings count (the product a * 2^n itself leaves the
\* model checker's integers)
ShlMod255(a, n) == DoubledMod255(a, n % 8)

\* a >> n for n >= 0: floor division by 2, n times
RECURSIVE PyShr(_, _)
PyShr(a, n) ==
  IF n = 0 \/ a = 0 \/ a = -1 THEN a ELSE PyShr(a \div 2, n - 1)

\* ------------------------------------------------------------------ decode

\* run's routing test: (IR << 2) % 255 >> 7
AluBit(ir) == ((ir * 4) % 255) \div 128

\* move_PC testing with run's shift of 2, the is-ALU bit
SetsPCBit_shift2(ir) == ((ir * 4) % 255) \div 128

\* move_PC's test: (IR << 3) % 255 >> 7
SetsPCBit(ir) == ((ir * 8) % 255) \div 128

\* move_PC without its test of the sets-PC bit
move_PC_always(ir, pc) == pc + (ir \div 64) + 1

\* move_PC: the PC after the loop's trailing advance
move_PC(ir, pc) == IF SetsPCBit(ir) # 1 THEN pc + (ir \div 64) + 1 ELSE pc

\* ------------------------------------------------------------------- state

VARIABLES
  program,     \* the bytes the loader parsed from the program file
  ram,         \* self.ram, kept sparsely: the cells that were written; every other cell is 0
  PC,          \* self.PC
  MAR,         \* self.MAR
  MDR,         \* self.MDR
  register,    \* self.register
  operand_a,   \* self.operand_a
  operand_b,   \* self.operand_b
  FL,          \* self.FL
  IR,          \* run's local IR
  output,      \* the values PRINT wrote to standard output, in order
  steps,       \* the iterations of run's loop taken so far
  status       \* "running", "halted" (sys.exit() of HALT), "InvalidInstruction"
               \* (sys.exit(1) of run) or the name of the exception that ended run

vars == <<program, ram, PC, MAR, MDR, register, operand_a, operand_b, FL, IR,
          output, steps, status>>

\* a Python list of length n accepts the indices -n .. n-1
ValidIndex(i, n) == i >= -n /\ i < n
ListIndex(i, n) == IF i < 0 THEN i + n ELSE i

ValidAddr(address) == ValidIndex(address, RamSize)
ValidReg(i) == ValidIndex(i, NumRegisters)
Reg(i) == register[ListIndex(i, NumRegisters)]

\* self.ram[address]
RamCell(address) ==
  LET i == ListIndex(address, RamSize)
  IN  IF i \in DOMAIN ram THEN ram[i] ELSE 0

\* ram_read's return value (its writes of MAR and MDR are in Fetch)
ram_read(address) == RamCell(address)

\* ram_write's effect on self.ram
ram_write(value, address) == (ListIndex(address, RamSize) :> value) @@ ram

\* load: the parsed bytes go to addresses 0, 1, 2, ...
load(prog) == [address \in 0..(Len(prog) - 1) |-> prog[address + 1]]

\* ------------------------------------------------------------ run: fetching

Running == status = "running"

\* the longest run followed, in iterations of run's loop
MaxSteps == 8

\* one more iteration of `while True`, up to the bound
Iteration == steps < MaxSteps /\ steps' = steps + 1

\* the three ram_read calls of run succeed
CanFetch == ValidAddr(PC) /\ ValidAddr(PC + 1) /\ ValidAddr(PC + 2)

\* the three ram_read calls of run (lines 234-236)
Fetch ==
  /\ IR' = ram_read(PC)
  /\ operand_a' = ram_read(PC + 1)
  /\ operand_b' = ram_read(PC + 2)
  /\ MAR' = PC + 2
  /\ MDR' = ram_read(PC + 2)

\* run's routing of the fetched opcode
Route(ir) ==
  IF AluBit(ir) = 1 THEN "alu"
  ELSE IF AluBit(ir) = 0 THEN "table"
  ELSE "invalid"

\* the opcode at PC is routed to the branch table and names this handler
Dispatched(name) ==
  /\ Running
  /\ CanFetch
  /\ Route(ram_read(PC)) = "table"
  /\ ram_read(PC) \in DOMAIN binary_op
  /\ binary_op[ram_read(PC)] = name

\* a ram_read of run raises IndexError; the reads before it took effect
FetchFault ==
  /\ Running
  /\ Iteration
  /\ ~CanFetch
  /\ status' = "IndexError"
  /\ IF ~ValidAddr(PC)
       THEN UNCHANGED <<IR, operand_a, MAR, MDR>>
       ELSE /\ IR' = ram_read(PC)
            /\ IF ~ValidAddr(PC + 1)
                 THEN /\ MAR' = PC
                      /\ MDR' = ram_read(PC)
                      /\ UNCHANGED operand_a
                 ELSE /\ operand_a' = ram_read(PC + 1)
                      /\ MAR' = PC + 1
                      /\ MDR' = ram_read(PC + 1)
  /\ UNCHANGED <<program, ram, PC, register, operand_b, FL, output>>

\* the opcode has no handler: the lookup binary_op[IR] raises KeyError, or
\* (when the routing test is neither 1 nor 0) run reports the invalid
\* instruction with the trace and exits with status 1
NoHandler ==
  /\ Running
  /\ Iteration
  /\ CanFetch
  /\ Fetch
  /\ IF Route(ram_read(PC)) = "invalid"
       THEN status' = "InvalidInstruction"
       ELSE /\ Route(ram_read(PC)) = "table"
            /\ ram_read(PC) \notin DOMAIN binary_op
            /\ status' = "KeyError"
  /\ UNCHANGED <<program, ram, PC, register, FL, output>>

\* ---------------------------------------------------------------- handlers

HALT ==
  /\ Dispatched("HLT")
  /\ Iteration
  /\ Fetch
  /\ status' = "halted"
  /\ UNCHANGED <<program, ram, PC, register, FL, output>>

\* LOAD storing the register index instead of the immediate
LoadInto_index(regs, a, b) == [regs EXCEPT ![ListIndex(a, NumRegisters)] = a]

\* LOAD's assignment
LoadInto(regs, a, b) == [regs EXCEPT ![ListIndex(a, NumRegisters)] = b]

LOAD ==
  /\ Dispatched("LDI")
  /\ Iteration
  /\ Fetch
  /\ IF ValidReg(operand_a')
       THEN /\ register' = LoadInto(register, operand_a', operand_b')
            /\ PC' = move_PC(IR', PC)
            /\ UNCHANGED status
       ELSE /\ status' = "IndexError"
            /\ UNCHANGED <<register, PC>>
  /\ UNCHANGED <<program, ram, FL, output>>

\* PRINT writing its operand instead of the register's value
Printed_operand(regs, a) == a

\* what PRINT writes
Printed(regs, a) == regs[ListIndex(a, NumRegisters)]

PRINT ==
  /\ Dispatched("PRN")
  /\ Iteration
  /\ Fetch
  /\ IF ValidReg(operand_a')
       THEN /\ output' = Append(output, Printed(register, operand_a'))
            /\ PC' = move_PC(IR', PC)
            /\ UNCHANGED status
       ELSE /\ status' = "IndexError"
            /\ UNCHANGED <<output, PC>>
  /\ UNCHANGED <<program, ram, register, FL>>

\* a PUSH that stores through self.register and completes
PUSH_writes ==
  /\ Dispatched("PUSH")
  /\ Iteration
  /\ Fetch
  /\ IF ValidReg(operand_a') /\ ValidAddr(register[SP] - 1)
       THEN /\ register' = [register EXCEPT ![SP] = @ - 1]
            /\ ram' = ram_write(Reg(operand_a'), register[SP] - 1)
            /\ PC' = move_PC(IR', PC)
            /\ UNCHANGED status
       ELSE /\ register' = [register EXCEPT ![SP] = @ - 1]
            /\ status' = "IndexError"
            /\ UNCHANGED <<ram, PC>>
  /\ UNCHANGED <<program, FL, output>>

\* PUSH decrements the stack pointer, evaluates the register to store and
\* then reads self.reg, an attribute the class never assigns
PUSH ==
  /\ Dispatched("PUSH")
  /\ Iteration
  /\ Fetch
  /\ register' = [register EXCEPT ![SP] = @ - 1]
  /\ status' = IF ValidReg(operand_a') THEN "AttributeError" ELSE "IndexError"
  /\ UNCHANGED <<program, ram, PC, FL, output>>

\* a POP that increments the stack pointer before it reads the stack
POP_preincrement ==
  /\ Dispatched("POP")
  /\ Iteration
  /\ Fetch
  /\ IF ValidAddr(register[SP] + 1) /\ ValidReg(operand_a')
       THEN /\ register' =
                 LoadInto([register EXCEPT ![SP] = @ + 1], operand_a',
                          RamCell(register[SP] + 1))
            /\ PC' = move_PC(IR', PC)
            /\ UNCHANGED status
       ELSE /\ status' = "IndexError"
            /\ UNCHANGED <<register, PC>>
  /\ UNCHANGED <<program, ram, FL, output>>

POP ==
  /\ Dispatched("POP")
  /\ Iteration
  /\ Fetch
  /\ IF ValidAddr(register[SP]) /\ ValidReg(operand_a')
       THEN /\ register' =
                 LET popped == LoadInto(register, operand_a', RamCell(register[SP]))
                 IN  [popped EXCEPT ![SP] = @ + 1]
            /\ PC' = move_PC(IR', PC)
            /\ UNCHANGED status
       ELSE /\ status' = "IndexError"
            /\ UNCHANGED <<register, PC>>
  /\ UNCHANGED <<program, ram, FL, output>>

\* a CALL that decrements through self.register and completes
CALL_completes ==
  /\ Dispatched("CALL")
  /\ Iteration
  /\ Fetch
  /\ IF ValidReg(operand_a') /\ ValidAddr(register[SP] - 1)
       THEN /\ register' = [register EXCEPT ![SP] = @ - 1]
            /\ ram' = ram_write(PC + 2, register[SP] - 1)
            /\ PC' = move_PC(IR', Reg(operand_a'))
            /\ UNCHANGED status
       ELSE /\ register' = [register EXCEPT ![SP] = @ - 1]
            /\ status' = "IndexError"
            /\ UNCHANGED <<ram, PC>>
  /\ UNCHANGED <<program, FL, output>>

\* CALL's first statement reads self.reg, an attribute the class never assigns
CALL ==
  /\ Dispatched("CALL")
  /\ Iteration
  /\ Fetch
  /\ status' = "AttributeError"
  /\ UNCHANGED <<program, ram, PC, register, FL, output>>

RET ==
  /\ Dispatched("RET")
  /\ Iteration
  /\ Fetch
  /\ IF ValidAddr(register[SP])
       THEN /\ PC' = move_PC(IR', RamCell(register[SP]))
            /\ register' = [register EXCEPT ![SP] = @ + 1]
            /\ UNCHANGED status
       ELSE /\ status' = "IndexError"
            /\ UNCHANGED <<register, PC>>
  /\ UNCHANGED <<program, ram, FL, output>>

JMP ==
  /\ Dispatched("JMP")
  /\ Iteration
  /\ Fetch
  /\ IF ValidReg(operand_a')
       THEN /\ PC' = move_PC(IR', Reg(operand_a'))
            /\ UNCHANGED status
       ELSE /\ status' = "IndexError"
            /\ UNCHANGED PC
  /\ UNCHANGED <<program, ram, register, FL, output>>

\* JEQ's test: self.FL & 0b00000001 == 1
JeqTaken(fl) == BitAnd(fl, 1) = 1

\* JNE's test: self.FL & 0b00000001 == 0
JneTaken(fl) == BitAnd(fl, 1) = 0

JEQ ==
  /\ Dispatched("JEQ")
  /\ Iteration
  /\ Fetch
  /\ IF JeqTaken(FL)
       THEN IF ValidReg(operand_a')
              THEN /\ PC' = move_PC(IR', Reg(operand_a'))
                   /\ UNCHANGED status
              ELSE /\ status' = "IndexError"
                   /\ UNCHANGED PC
       ELSE /\ PC' = move_PC(IR', PC + 2)
            /\ UNCHANGED status
  /\ UNCHANGED <<program, ram, register, FL, output>>

JNE ==
  /\ Dispatched("JNE")
  /\ Iteration
  /\ Fetch
  /\ IF JneTaken(FL)
       THEN IF ValidReg(operand_a')
              THEN /\ PC' = move_PC(IR', Reg(operand_a'))
                   /\ UNCHANGED status
              ELSE /\ status' = "IndexError"
                   /\ UNCHANGED PC
       ELSE /\ PC' = move_PC(IR', PC + 2)
            /\ UNCHANGED status
  /\ UNCHANGED <<program, ram, register, FL, output>>

\* --------------------------------------------------------------------- ALU

\* CMP adding its bit to the flags instead of overwriting them
CmpFlags_combined(a, b, fl) ==
  BitOr(fl, IF a = b THEN 1 ELSE IF a < b THEN 4 ELSE 2)

\* CMP's three tests, in the order of the code
CmpFlags(a, b, fl) ==
  LET f1 == IF a = b THEN 1 ELSE fl
      f2 == IF a < b THEN 4 ELSE f1
  IN  IF a > b THEN 2 ELSE f2

\* an ALU that also keeps a zero flag in FL
AluStore_flags(reg_a, value) ==
  /\ register' = LoadInto(register, reg_a, value)
  /\ PC' = move_PC(IR', PC)
  /\ FL' = IF value = 0 THEN 1 ELSE 0
  /\ UNCHANGED status

\* the ALU stores a result in register reg_a and run advances the PC
AluStore(reg_a, value) ==
  /\ register' = LoadInto(register, reg_a, value)
  /\ PC' = move_PC(IR', PC)
  /\ UNCHANGED <<FL, status>>

\* the ALU raises
AluRaise(kind) ==
  /\ status' = kind
  /\ UNCHANGED <<register, FL, PC>>

\* an ALU else branch that does nothing and lets run advance the PC
Unsupported_silent ==
  /\ PC' = move_PC(IR', PC)
  /\ UNCHANGED <<register, FL, status>>

\* the ALU's else branch: raise Exception("Unsupported ALU operation")
Unsupported == AluRaise("Unsupported ALU operation")

\* ADD subtracting
AluAdd_sub(a, b) == a - b

\* ADD's result
AluAdd(a, b) == a + b

ALU ==
  /\ Running
  /\ Iteration
  /\ CanFetch
  /\ Route(ram_read(PC)) = "alu"
  /\ Fetch
  /\ LET op == IR'
         reg_a == operand_a'
         reg_b == operand_b'
         both == ValidReg(reg_a) /\ ValidReg(reg_b)
     IN  CASE op = math_op.ADD ->
                IF both THEN AluStore(reg_a, AluAdd(Reg(reg_a), Reg(reg_b)))
                ELSE AluRaise("IndexError")
           [] op = math_op.SUB ->
                IF both THEN AluStore(reg_a, Reg(reg_a) - Reg(reg_b))
                ELSE AluRaise("IndexError")
           [] op = math_op.MUL ->
                IF both THEN AluStore(reg_a, Reg(reg_a) * Reg(reg_b))
                ELSE AluRaise("IndexError")
           [] op = math_op.CMP ->
                IF both
                  THEN /\ FL' = CmpFlags(Reg(reg_a), Reg(reg_b), FL)
                       /\ PC' = move_PC(IR', PC)
                       /\ UNCHANGED <<register, status>>
                  ELSE AluRaise("IndexError")
           [] op = math_op.AND ->
                IF both THEN AluStore(reg_a, BitAnd(Reg(reg_a), Reg(reg_b)))
                ELSE AluRaise("IndexError")
           [] op = math_op.OR ->
                IF both THEN AluStore(reg_a, BitOr(Reg(reg_a), Reg(reg_b)))
                ELSE AluRaise("IndexError")
           [] op = math_op.XOR ->
                IF both THEN AluStore(reg_a, BitXor(Reg(reg_a), Reg(reg_b)))
                ELSE AluRaise("IndexError")
           [] op = math_op.NOT ->
                IF ValidReg(reg_a) THEN AluStore(reg_a, BitNot(Reg(reg_a)))
                ELSE AluRaise("IndexError")
           [] op = math_op.SHL ->
                IF ~both THEN AluRaise("IndexError")
                ELSE IF Reg(reg_b) < 0 THEN AluRaise("ValueError")
                ELSE AluStore(reg_a, ShlMod255(Reg(reg_a), Reg(reg_b)))
           [] op = math_op.SHR ->
                IF ~both THEN AluRaise("IndexError")
                ELSE IF Reg(reg_b) < 0 THEN AluRaise("ValueError")
                ELSE AluStore(reg_a, PyShr(Reg(reg_a), Reg(reg_b)) % 255)
           [] op = math_op.MOD ->
                IF ~both THEN AluRaise("IndexError")
                ELSE IF Reg(reg_b) = 0 THEN AluRaise("ZeroDivisionError")
                ELSE AluStore(reg_a, PyMod(Reg(reg_a), Reg(reg_b)))
           [] OTHER -> Unsupported
  /\ UNCHANGED <<program, ram, output>>

\* ---------------------------------------------------------- loaded programs

\* the largest distance of a sampled register value from 0 and from 255
MaxVal == 1

\* the byte values the sampled programs load into registers 0 and 1
Vals == (0..MaxVal) \cup ((255 - MaxVal)..255)

\* an instruction's bytes: the opcode and as many operands as its top two bits say
Enc(op, a, b) ==
  CASE op \div 64 = 0 -> <<op>>
    [] op \div 64 = 1 -> <<op, a>>
    [] op \div 64 = 2 -> <<op, a, b>>
    [] OTHER -> <<op, a, b, 0>>

\* opcodes in neither table: routed to the branch table (0), to the ALU with
\* one operand (96) and to the ALU with two operands (163)
UnknownOps == {0, 96, 163}

MathOps == {math_op[name] : name \in DOMAIN math_op}

\* operand pairs: registers 0, 1 and the stack pointer, and 8, which is no register
OperandPairs ==
  {<<0, 0>>, <<0, 1>>, <<1, 0>>, <<7, 0>>, <<0, 7>>, <<8, 0>>, <<0, 8>>}

Instrs ==
  {Enc(op, p[1], p[2]) : op \in DOMAIN binary_op \cup MathOps \cup UnknownOps,
                         p \in OperandPairs}

\* LDI R0,x; LDI R1,y
Setup(x, y) == <<130, 0, x, 130, 1, y>>

\* what may run between the setup and the last instruction: the three
\* outcomes of CMP, results outside 0..255, and a stack pointer into the program
Leads ==
  {<<167, 0, 1>>, <<167, 1, 0>>, <<167, 0, 0>>, <<160, 0, 1>>, <<161, 0, 1>>,
   <<105, 0>>, <<130, 7, 0>>}

\* LDI R0,8; PRN R0; HLT
PrintEight == <<130, 0, 8, 71, 0, 1>>

\* LDI R0,5; LDI R1,3; ADD R0,R1; PRN R0; HLT
AddPrint == <<130, 0, 5, 130, 1, 3, 160, 0, 1, 71, 0, 1>>

\* LDI R0,0; JMP R0
LoopForever == <<130, 0, 0, 84, 0>>

\* LDI R1,6; CALL R1; HLT; (at 6) LDI R0,42; PRN R0; RET
CallRet == <<130, 1, 6, 80, 1, 1, 130, 0, 42, 71, 0, 17>>

\* LDI R0,255; LDI R1,255; MUL R0,R1; ADD R0,R1; JMP R0: a jump to len(ram)
FarJump == <<130, 0, 255, 130, 1, 255, 162, 0, 1, 160, 0, 1, 84, 0>>

\* LDI R7,255; LDI R0,255; MUL R7,R0; ADD R7,R0; POP R0: a pop at len(ram)
FarPop == <<130, 7, 255, 130, 0, 255, 162, 7, 0, 160, 7, 0, 70, 0>>

Scenarios == {PrintEight, AddPrint, LoopForever, CallRet, FarJump, FarPop}

Programs ==
  {<<byte>> : byte \in 0..255}
    \cup {<<130, i, v>> : i \in 0..(NumRegisters - 1), v \in 0..255}
    \cup {Setup(x, y) \o instr : x \in Vals, y \in Vals, instr \in Instrs}
    \cup {Setup(x, y) \o lead \o instr :
            x \in Vals, y \in Vals, lead \in Leads, instr \in Instrs}
    \cup Scenarios

\* ------------------------------------------------------------ specification

\* __init__, then load
Init ==
  /\ program \in Programs
  /\ ram = load(program)
  /\ PC = 0
  /\ MAR = None
  /\ MDR = None
  /\ register = [i \in 0..(NumRegisters - 1) |-> IF i = SP THEN 244 ELSE 0]
  /\ operand_a = None
  /\ operand_b = None
  /\ FL = 0
  /\ IR = None
  /\ output = <<>>
  /\ steps = 0
  /\ status = "running"

\* one iteration of run's loop
Next ==
  \/ FetchFault
  \/ NoHandler
  \/ HALT
  \/ LOAD
  \/ PRINT
  \/ PUSH
  \/ POP
  \/ CALL
  \/ RET
  \/ JMP
  \/ JEQ
  \/ JNE
  \/ ALU

Spec == Init /\ [][Next]_vars

\* the loop of run takes its next iteration as long as nothing ended it
FairSpec == Spec /\ WF_vars(Next)

\* ------------------------------------------------------------------ claims

\* the opcodes of the two tables
Recognized == DOMAIN binary_op \cup MathOps

\* C1: with LDI R0,8; PRN R0; HLT loaded at 0 and the initial machine state,
\* run never enters an error state, its output is empty and then exactly the
\* one value 8, and it reaches the halted state, through HLT, with output 8.
C1_PrintEightHalts ==
  /\ [](program = PrintEight =>
          /\ status \in {"running", "halted"}
          /\ output \in {<<>>, <<8>>}
          /\ (status = "halted" => output = <<8>> /\ IR = OpOf("HLT")))
  /\ (program = PrintEight ~> (status = "halted" /\ output = <<8>>))

C1_Witness ==
  program = PrintEight /\ status = "halted" /\ output = <<8>> /\ PC = 5

\* C2: for every register index i in 0..7 and every immediate byte v, the
\* iteration that executes LDI i, v leaves v in register i, leaves every other
\* register as it was and does not stop the loop.
C2_LdiLoads ==
  [][(LOAD /\ operand_a' \in 0..(NumRegisters - 1) /\ operand_b' \in 0..255) =>
       /\ register'[operand_a'] = operand_b'
       /\ \A j \in (0..(NumRegisters - 1)) \ {operand_a'} :
            register'[j] = register[j]
       /\ status' = "running"]_vars

\* LDI R1,254 executed with register 0 already loaded
C2_Witness ==
  /\ IR = OpOf("LDI") /\ operand_a = 1 /\ operand_b = 254
  /\ register[1] = 254 /\ register[0] = 1 /\ register[SP] = 244
  /\ status = "running"

\* C3: for every pair of 8-bit values a, b in the two addressed registers,
\* after CMP the flags byte is exactly the Equal bit (1) if a = b, exactly the
\* Less-than bit (4) if a < b and exactly the Greater-than bit (2) if a > b,
\* whatever it held before.
C3_CmpSetsOneFlag ==
  [][\A ra, rb \in 0..(NumRegisters - 1) :
       (/\ ALU /\ IR' = math_op.CMP /\ operand_a' = ra /\ operand_b' = rb
        /\ register[ra] \in 0..255 /\ register[rb] \in 0..255) =>
         /\ FL' \in {1, 2, 4}
         /\ (FL' = 1) = (register[ra] = register[rb])
         /\ (FL' = 4) = (register[ra] < register[rb])
         /\ (FL' = 2) = (register[ra] > register[rb])]_vars

\* a CMP that found Less-than right after a CMP that found Greater-than
C3_Witness ==
  /\ program = Setup(0, 1) \o <<167, 1, 0>> \o <<167, 0, 1>>
  /\ steps = 4 /\ IR = math_op.CMP /\ FL = 4 /\ status = "running"

\* C4: for every flags value and register r, JEQ r sets PC to the value of
\* register r when the Equal bit of FL is set and JNE r does so when it is
\* clear; otherwise PC after the instruction is PC before plus 2.
C4_ConditionalJumps ==
  [][\A r \in 0..(NumRegisters - 1) :
       /\ (JEQ /\ operand_a' = r) =>
            /\ status' = "running"
            /\ PC' = IF FL % 2 = 1 THEN register[r] ELSE PC + 2
       /\ (JNE /\ operand_a' = r) =>
            /\ status' = "running"
            /\ PC' = IF FL % 2 = 0 THEN register[r] ELSE PC + 2]_vars

\* a JEQ not taken after a CMP that found Less-than: PC went from 9 to 11
C4_Witness ==
  /\ IR = OpOf("JEQ") /\ FL = 4 /\ PC = 11 /\ steps = 4 /\ status = "running"

\* a JNE taken after a CMP that found Greater-than, to the address in register 1
C4_WitnessTaken ==
  /\ IR = OpOf("JNE") /\ FL = 2 /\ operand_a = 1 /\ PC = register[1] /\ PC = 254
  /\ status = "running"

\* C5: for every register index r in 0..6, PUSH r completes without error,
\* and a POP r that runs right after it completes without error and leaves
\* register r holding what PUSH stored and the stack pointer where it was
\* before the PUSH (one above where PUSH left it).
C5_PushThenPop ==
  [][/\ (PUSH /\ operand_a' \in 0..6) =>
          /\ status' = "running"
          /\ register'[SP] = register[SP] - 1
          /\ register'[operand_a'] = register[operand_a']
     /\ (POP /\ IR = OpOf("PUSH") /\ operand_a' = operand_a /\ operand_a' \in 0..6) =>
          /\ status' = "running"
          /\ register'[operand_a'] = register[operand_a']
          /\ register'[SP] = register[SP] + 1]_vars

\* C6: a CALL r at address p completes, leaving the return address p + 2 on
\* the stack, the stack pointer one lower and PC at the subroutine; a RET
\* then sets PC to the address on the stack and the stack pointer one
\* higher, so that PC is p + 2 and the stack pointer what it was before the CALL.
C6_CallThenRet ==
  [][/\ (CALL /\ operand_a' \in 0..(NumRegisters - 1)) =>
          /\ status' = "running"
          /\ register'[SP] = register[SP] - 1
          /\ ram'[register'[SP]] = PC + 2
          /\ PC' = register[operand_a']
     /\ (RET /\ register[SP] \in 0..(RamSize - 1)) =>
          /\ status' = "running"
          /\ PC' = RamCell(register[SP])
          /\ register'[SP] = register[SP] + 1]_vars

\* C7: with LDI R0,5; LDI R1,3; ADD R0,R1; PRN R0; HLT loaded and the initial
\* state, run never enters an error state, 8 is the only value it outputs,
\* and it reaches the halted state with output 8.
C7_AddPrintOutputsEight ==
  /\ [](program = AddPrint =>
          /\ status \in {"running", "halted"}
          /\ output \in {<<>>, <<8>>}
          /\ (IR = OpOf("PRN") => output = <<8>>))
  /\ (program = AddPrint ~> (status = "halted" /\ output = <<8>>))

C7_Witness ==
  /\ program = AddPrint /\ IR = OpOf("PRN") /\ output = <<8>>
  /\ register[0] = 8 /\ register[1] = 3 /\ PC = 11 /\ status = "running"

\* C8: whenever the loop fetches a byte that is in neither table, it takes
\* the invalid-instruction path (the report with the trace, then exit
\* status 1) and stops through no other error.
C8_InvalidInstructionReported ==
  [][(steps' = steps + 1 /\ CanFetch /\ IR' \notin Recognized) =>
       status' = "InvalidInstruction"]_vars

\* C9: every opcode that is routed to the ALU and is none of the eleven ALU
\* operations ends the run with "Unsupported ALU operation", and registers,
\* flags, PC and memory are then what they were before the instruction.
C9_UnsupportedAluRaises ==
  [][(steps' = steps + 1 /\ CanFetch /\ Route(IR') = "alu"
        /\ IR' \notin MathOps) =>
       /\ status' = "Unsupported ALU operation"
       /\ UNCHANGED <<register, FL, PC, ram>>]_vars

\* opcode 163 after LDI R0,255; LDI R1,1
C9_Witness ==
  /\ status = "Unsupported ALU operation" /\ IR = 163
  /\ register[0] = 255 /\ register[1] = 1 /\ PC = 6 /\ FL = 0

\* C10: in every state in which the loop has stopped, it stopped by
\* executing HLT or by fetching an opcode that is in neither table.
C10_StopsOnlyByHaltOrUnknown ==
  status # "running" =>
    \/ status = "halted" /\ IR = OpOf("HLT")
    \/ IR \notin Recognized

\* C11: an instruction that completes and whose opcode has the sets-PC bit
\* (16) clear leaves PC at PC before plus (opcode >> 6) + 1; after one whose
\* opcode has the bit set, PC is what the handler assigned (the register for
\* a jump taken, PC + 2 for a conditional jump not taken, the popped address
\* for RET) and the loop adds nothing to it.
C11_PcAdvance ==
  [][(steps' = steps + 1 /\ status' = "running") =>
       IF (IR' \div 16) % 2 = 0
         THEN PC' = PC + (IR' \div 64) + 1
         ELSE /\ IR' = OpOf("JMP") => PC' = register[operand_a']
              /\ IR' = OpOf("JEQ") =>
                   PC' = IF FL % 2 = 1 THEN register[operand_a'] ELSE PC + 2
              /\ IR' = OpOf("JNE") =>
                   PC' = IF FL % 2 = 0 THEN register[operand_a'] ELSE PC + 2
              /\ IR' = OpOf("RET") => PC' = RamCell(register[SP])]_vars

\* the one-operand ALU operation NOT, run after the setup: PC went from 6 to 8
C11_Witness ==
  /\ IR = math_op.NOT /\ PC = 8 /\ steps = 3 /\ register[0] = -1
  /\ status = "running"

\* C12: FL is 0 after construction, and an iteration changes FL only if it is
\* a CMP that completes; every other instruction, and every instruction that
\* ends in an error, leaves FL as it was.
C12_OnlyCmpSetsFlags ==
  /\ FL = 0
  /\ [][FL' # FL => (IR' = math_op.CMP /\ status' = "running")]_vars

\* an ADD that completed with the Less-than flag of an earlier CMP still set
C12_Witness ==
  /\ IR = math_op.ADD /\ FL = 4 /\ steps = 4 /\ status = "running"
  /\ register[0] = 1 /\ register[1] = 1

\* C13: every register holds an integer in 0..255.
C13_RegistersAreBytes ==
  \A i \in 0..(NumRegisters - 1) : register[i] \in 0..255

RECURSIVE Pow2(_)
Pow2(n) == IF n = 0 THEN 1 ELSE 2 * Pow2(n - 1)

\* C15: for every 8-bit a in register A and every shift count b in 0..8 in
\* register B, SHL leaves (a << b) mod 256 in register A and SHR leaves
\* (a >> b) mod 256, which is a >> b.
C15_ShiftsReduceTo8Bits ==
  [][\A ra, rb \in 0..(NumRegisters - 1) :
       (/\ steps' = steps + 1 /\ CanFetch
        /\ operand_a' = ra /\ operand_b' = rb
        /\ register[ra] \in 0..255 /\ register[rb] \in 0..8) =>
         /\ IR' = math_op.SHL =>
              /\ status' = "running"
              /\ register'[ra] = (register[ra] * Pow2(register[rb])) % 256
         /\ IR' = math_op.SHR =>
              /\ status' = "running"
              /\ register'[ra] = register[ra] \div Pow2(register[rb])]_vars

\* C16: for every 8-bit v in the addressed register, NOT leaves 255 - v there.
C16_NotIs8BitComplement ==
  [][\A ra \in 0..(NumRegisters - 1) :
       (/\ steps' = steps + 1 /\ CanFetch /\ IR' = math_op.NOT
        /\ operand_a' = ra /\ register[ra] \in 0..255) =>
         /\ status' = "running"
         /\ register'[ra] = 255 - register[ra]]_vars

\* C17: for every byte the loop fetches, the iteration is the ALU's exactly
\* when the byte's is-ALU bit (32) is set.
C17_RoutedByAluBit ==
  [][(steps' = steps + 1 /\ CanFetch /\ IR' \in 0..255) =>
       (ALU <=> (IR' \div 32) % 2 = 1)]_vars

\* C18 as stated: for every r in 0..7, POP r completes, leaves in register r
\* the value memory held at the address in the stack pointer, leaves memory
\* unchanged and, for r other than 7, the stack pointer one greater.
C18_PopAsStated ==
  [][\A r \in 0..(NumRegisters - 1) :
       (steps' = steps + 1 /\ CanFetch /\ IR' = OpOf("POP") /\ operand_a' = r) =>
         /\ status' = "running"
         /\ register'[r] = RamCell(register[SP])
         /\ ram' = ram
         /\ r # SP => register'[SP] = register[SP] + 1]_vars

\* C18 amended: for every r in 0..7 and every state whose stack pointer is an
\* index of memory, POP r completes and leaves memory unchanged; for r other
\* than 7, register r holds the value memory held at the address in the
\* stack pointer and the stack pointer is one greater; for r = 7, register 7
\* holds that value plus one.
C18_Pop ==
  [][\A r \in 0..(NumRegisters - 1) :
       (/\ steps' = steps + 1 /\ CanFetch /\ IR' = OpOf("POP") /\ operand_a' = r
        /\ register[SP] \in (-RamSize)..(RamSize - 1)) =>
         /\ status' = "running"
         /\ ram' = ram
         /\ r # SP => /\ register'[r] = RamCell(register[SP])
                      /\ register'[SP] = register[SP] + 1
         /\ r = SP => register'[SP] = RamCell(register[SP]) + 1]_vars

\* POP R0 with the stack pointer at 0, where the program's first byte is
C18_Witness ==
  /\ IR = OpOf("POP") /\ operand_a = 0 /\ register[0] = 130
  /\ register[SP] = 1 /\ RamCell(0) = 130 /\ steps = 4 /\ status = "running"

\* POP R7 with the stack pointer at 0: register 7 holds the popped 130 plus one
C18_WitnessStackPointer ==
  /\ IR = OpOf("POP") /\ operand_a = SP /\ register[SP] = 131
  /\ RamCell(0) = 130 /\ steps = 4 /\ status = "running"

\* C19: with LDI R0,0; JMP R0 loaded, the machine never halts and never
\* enters an error state; PC is 0 before every even iteration and 3 before
\* every odd one; from the second iteration on the machine state is the
\* same every second iteration, and every iteration up to the bound is taken.
C19_LoopRunsForever ==
  /\ [](program = LoopForever =>
          /\ status = "running"
          /\ PC = IF steps % 2 = 0 THEN 0 ELSE 3
          /\ ram = load(LoopForever)
          /\ register = [i \in 0..(NumRegisters - 1) |-> IF i = SP THEN 244 ELSE 0]
          /\ FL = 0 /\ output = <<>>
          /\ (steps >= 1 /\ PC = 3) =>
               <<IR, operand_a, operand_b, MAR, MDR>> = <<130, 0, 0, 2, 0>>
          /\ (steps >= 1 /\ PC = 0) =>
               <<IR, operand_a, operand_b, MAR, MDR>> = <<84, 0, 0, 5, 0>>)
  /\ (program = LoopForever ~> (steps = MaxSteps /\ status = "running"))

\* back at 0 after the second jump
C19_Witness ==
  /\ program = LoopForever /\ steps = 4 /\ PC = 0 /\ IR = OpOf("JMP")
  /\ status = "running"

C20_WitnessCall ==
  /\ program = CallRet /\ IR = OpOf("CALL") /\ status = "AttributeError"
  /\ PC = 3 /\ register[SP] = 244 /\ register[1] = 6

====
